---- MODULE Spec2Model ----
(***************************************************************************)
(* ProDataCleaner/cleaner.py: one pass over a tab-separated text file      *)
(* (test.txt) that writes one pretty-printed JSON record per data row into *)
(* out.json, between a hand-written "[" and "]".                           *)
(*                                                                         *)
(* Text is modelled as a sequence of one-character strings, a Python dict  *)
(* as the sequence of its <<key, value>> items in insertion order, and a   *)
(* dict value as a tagged record: Str(s) for a str, Obj(d) for a dict,     *)
(* Lst(l) for a list.                                                      *)
(***************************************************************************)
EXTENDS Integers, Sequences, FiniteSets, TLC

\* ------------------------------------------------------------ characters
TAB == "\t"
NL == "\n"
QUOTE == "\""
BSLASH == "\\"

\* ---------------------------------------------------------------- bounds
\* Largest number of tab-separated fields of a header line or a data line.
MaxCols == 4
\* Largest number of data lines after the header line.
MaxRows == 2

\* ------------------------------------------------- Python list/str helpers
\* lst[k] with Python's 0-based index.
At(lst, k) == lst[k + 1]

RECURSIVE Concat(_)
Concat(chunks) ==
    IF chunks = <<>> THEN <<>> ELSE Head(chunks) \o Concat(Tail(chunks))

\* s.replace('\n', ''): every newline character is dropped.
replaceNL(s) == SelectSeq(s, LAMBDA c : c # NL)

RECURSIVE splitAcc(_, _, _)
splitAcc(s, cur, acc) ==
    IF s = <<>> THEN Append(acc, cur)
    ELSE IF Head(s) = TAB THEN splitAcc(Tail(s), <<>>, Append(acc, cur))
    ELSE splitAcc(Tail(s), Append(cur, Head(s)), acc)

\* re.split(r'\t', s): the fields between the tabs, always at least one.
reSplit(s) == splitAcc(s, <<>>, <<>>)

\* ------------------------------------------------------------ Python dict
Str(s) == [t |-> "str", v |-> s]
Obj(d) == [t |-> "obj", v |-> d]
Lst(l) == [t |-> "list", v |-> l]

DictKeys(d) == {d[k][1] : k \in 1..Len(d)}
DictHas(d, key) == key \in DictKeys(d)
DictGet(d, key) == d[CHOOSE k \in 1..Len(d) : d[k][1] = key][2]

\* d[key] = val: an existing key keeps its place, a new key goes last.
DictSet(d, key, val) ==
    IF DictHas(d, key)
    THEN [k \in 1..Len(d) |-> IF d[k][1] = key THEN <<key, val>> ELSE d[k]]
    ELSE Append(d, <<key, val>>)

NameKey == <<"n", "a", "m", "e">>
CountryKey == <<"c", "o", "u", "n", "t", "r", "y">>
DataKey == <<"d", "a", "t", "a">>

\* ------------------------------------------------------------ json.dumps
\* The indent of json.dumps(x, indent=4).
Indent == 4

Spaces(n) == [k \in 1..n |-> " "]

\* EscChar with the backslash left as it is.
EscCharNoBackslash(c) ==
    CASE c = QUOTE -> <<BSLASH, QUOTE>>
      [] c = NL -> <<BSLASH, "n">>
      [] c = TAB -> <<BSLASH, "t">>
      [] OTHER -> <<c>>

\* One character inside a JSON string literal (ensure_ascii escapes).
EscChar(c) ==
    CASE c = QUOTE -> <<BSLASH, QUOTE>>
      [] c = BSLASH -> <<BSLASH, BSLASH>>
      [] c = NL -> <<BSLASH, "n">>
      [] c = TAB -> <<BSLASH, "t">>
      [] OTHER -> <<c>>

RECURSIVE EscChars(_)
EscChars(s) == IF s = <<>> THEN <<>> ELSE EscChar(Head(s)) \o EscChars(Tail(s))

DumpsStr(s) == <<QUOTE>> \o EscChars(s) \o <<QUOTE>>

RECURSIVE DumpsVal(_, _)
RECURSIVE DumpsItems(_, _, _)
DumpsItems(d, level, k) ==
    Spaces(Indent * level) \o DumpsStr(d[k][1]) \o <<":", " ">>
        \o DumpsVal(d[k][2], level)
        \o (IF k < Len(d) THEN <<",", NL>> \o DumpsItems(d, level, k + 1)
            ELSE <<>>)

RECURSIVE DumpsElems(_, _, _)
DumpsElems(l, level, k) ==
    Spaces(Indent * level) \o DumpsVal(l[k], level)
        \o (IF k < Len(l) THEN <<",", NL>> \o DumpsElems(l, level, k + 1)
            ELSE <<>>)

DumpsVal(val, level) ==
    IF val.t = "str" THEN DumpsStr(val.v)
    ELSE IF val.t = "list"
    THEN IF val.v = <<>> THEN <<"[", "]">>
         ELSE <<"[", NL>> \o DumpsElems(val.v, level + 1, 1)
                  \o <<NL>> \o Spaces(Indent * level) \o <<"]">>
    ELSE IF val.v = <<>> THEN <<"{", "}">>
    ELSE <<"{", NL>> \o DumpsItems(val.v, level + 1, 1)
             \o <<NL>> \o Spaces(Indent * level) \o <<"}">>

\* json.dumps(x, indent=4) of a dict x.
dumps(d) == DumpsVal(Obj(d), 0)

\* ----------------------------------------------------------- input files
\* The names of the columns after name and country.
DataNames == {<<"k", QUOTE>>, <<"_", "i", "d">>}
\* The values a data line is made of.
Vals == << <<>>, <<"a">>, <<QUOTE, BSLASH>> >>

RECURSIVE SeqsUpTo(_, _)
SeqsUpTo(S, n) ==
    IF n = 0 THEN {<<>>}
    ELSE LET shorter == SeqsUpTo(S, n - 1)
         IN  shorter \cup {Append(s, e) : s \in {t \in shorter : Len(t) = n - 1}, e \in S}

\* Header fields: a line with an empty name, a line with one name, and
\* name, country followed by up to MaxCols - 2 data names (repeats included).
HeaderFields ==
    {<< <<>> >>, << <<"n">> >>}
        \cup {<< <<"n">>, <<"c">> >> \o s : s \in SeqsUpTo(DataNames, MaxCols - 2)}

\* A data line of n fields, neighbours distinct; p shifts the values.
RowOf(n, p) == [j \in 1..n |-> Vals[((n + p + j) % Len(Vals)) + 1]]

\* Data fields: one line of each width 1..MaxCols, and a second of full width.
RowFields == {RowOf(n, 0) : n \in 1..MaxCols} \cup {RowOf(MaxCols, 1)}

RECURSIVE Join(_)
Join(fields) ==
    IF Len(fields) = 1 THEN fields[1]
    ELSE fields[1] \o <<TAB>> \o Join(Tail(fields))

\* A text file as iteration over it yields it: every line but the last
\* ends with a newline, the last one may or may not, and no line is empty.
FileOf(fieldLines, endsNL) ==
    [k \in 1..Len(fieldLines) |->
        Join(fieldLines[k])
            \o (IF k < Len(fieldLines) \/ endsNL THEN <<NL>> ELSE <<>>)]

InputFiles ==
    {<<>>} \cup
    {f \in {FileOf(<<h>> \o rows, e) :
                h \in HeaderFields, rows \in SeqsUpTo(RowFields, MaxRows),
                e \in BOOLEAN} :
        f[Len(f)] # <<>>}

\* ------------------------------------------------------------------ state
VARIABLES
    fileLines,  \* the lines of test.txt
    inFile,     \* the input handle: [pos, closed]
    outFile,    \* the output handle: [written, closed]; written is the sequence of write() arguments
    x,          \* the dict x
    i,          \* the line counter i
    headers,    \* the list headers; <<>> while the name is unbound
    stdout,     \* what print() has shown
    pc,         \* "loop"; "written" (after line 33) or "raised" (IndexError propagating);
                \* "left" or "aborted" (with block left); "exit" or "exitError" (interpreter gone)
    players,    \* flat-record mode: the list players
    idCount     \* flat-record mode: the identifiers generated so far

vars == <<fileLines, inFile, outFile, x, i, headers, stdout, pc, players, idCount>>
flatVars == <<players, idCount>>

Init ==
    /\ fileLines \in InputFiles
    /\ inFile = [pos |-> 0, closed |-> FALSE]
    /\ outFile = [written |-> <<>>, closed |-> FALSE]
    /\ x = <<>>
    /\ i = 0
    /\ headers = <<>>
    /\ stdout = <<>>
    /\ pc = "loop"
    /\ players = <<>>
    /\ idCount = 0

\* ------------------------------------------------------------- loop body
HasLine == inFile.pos < Len(fileLines)
line == fileLines[inFile.pos + 1]

\* fillData that stops without raising where lineArr ends.
RECURSIVE fillDataSkipShort(_, _, _, _)
fillDataSkipShort(data, hdrs, lineArr, j) ==
    IF ~(j < Len(hdrs)) \/ ~(j < Len(lineArr)) THEN [data |-> data, raised |-> FALSE]
    ELSE fillDataSkipShort(DictSet(data, At(hdrs, j), Str(replaceNL(At(lineArr, j)))),
                           hdrs, lineArr, j + 1)

\* fillData that keeps the first value of a repeated header name.
RECURSIVE fillDataFirstWins(_, _, _, _)
fillDataFirstWins(data, hdrs, lineArr, j) ==
    IF ~(j < Len(hdrs)) THEN [data |-> data, raised |-> FALSE]
    ELSE IF ~(j < Len(lineArr)) THEN [data |-> data, raised |-> TRUE]
    ELSE fillDataFirstWins(
             IF DictHas(data, At(hdrs, j)) THEN data
             ELSE DictSet(data, At(hdrs, j), Str(replaceNL(At(lineArr, j)))),
             hdrs, lineArr, j + 1)

\* for j in range(2, len(headers), 1): x["data"][headers[j]] = lineArr[j].replace('\n', '')
\* on the dict data; raised when lineArr[j] is out of range.
RECURSIVE fillData(_, _, _, _)
fillData(data, hdrs, lineArr, j) ==
    IF ~(j < Len(hdrs)) THEN [data |-> data, raised |-> FALSE]
    ELSE IF ~(j < Len(lineArr)) THEN [data |-> data, raised |-> TRUE]
    ELSE fillData(DictSet(data, At(hdrs, j), Str(replaceNL(At(lineArr, j)))),
                  hdrs, lineArr, j + 1)

\* The first column that goes into data: range(2, ...).
DataStart == 2

\* setName that assigns only while x has no name yet.
setNameOnce(d, lineArr) ==
    IF DictHas(d, NameKey) THEN d ELSE DictSet(d, NameKey, Str(At(lineArr, 0)))
\* setCountry with the newline dropped, as for the data columns.
setCountryStripped(d, lineArr) ==
    DictSet(d, CountryKey, Str(replaceNL(At(lineArr, 1))))

\* x["name"] = lineArr[0]
setName(d, lineArr) == DictSet(d, NameKey, Str(At(lineArr, 0)))
\* x["country"] = lineArr[1]
setCountry(d, lineArr) == DictSet(d, CountryKey, Str(At(lineArr, 1)))

\* Lines 18-22 on the dict d: the dict afterwards, and whether an
\* IndexError was raised on the way (d is mutated up to that point).
buildRecord(d, hdrs, lineArr) ==
    LET d1 == setName(d, lineArr)
    IN  IF Len(lineArr) < 2 THEN [x |-> d1, raised |-> TRUE]
        ELSE LET d2 == setCountry(d1, lineArr)
                 d3 == DictSet(d2, DataKey, Obj(<<>>))
                 fd == fillData(<<>>, hdrs, lineArr, DataStart)
             IN  [x |-> DictSet(d3, DataKey, Obj(fd.data)), raised |-> fd.raised]

\* rowWrites with every write under `if i == 1`.
rowWritesFirstOnly(n, d) ==
    IF n = 1 THEN << <<"[">>, dumps(d), <<",">>, <<NL>> >> ELSE <<>>
\* rowWrites with "[" written on every row.
rowWritesOpenEach(n, d) == << <<"[">>, dumps(d), <<",">>, <<NL>> >>

\* Lines 23-30: the arguments of the write() calls of one data row.
rowWrites(n, d) ==
    (IF n = 1 THEN << <<"[">> >> ELSE <<>>) \o << dumps(d), <<",">>, <<NL>> >>

\* Line 33.
closeWrites == << <<"]">> >>

\* ReadHeader that also writes the opening bracket.
ReadHeaderOpens ==
    /\ pc = "loop" /\ HasLine /\ i = 0
    /\ headers' = reSplit(replaceNL(line))
    /\ stdout' = Append(stdout, headers')
    /\ outFile' = [outFile EXCEPT !.written = Append(@, <<"[">>)]
    /\ inFile' = [inFile EXCEPT !.pos = @ + 1]
    /\ i' = i + 1
    /\ UNCHANGED <<fileLines, x, pc, flatVars>>

ReadHeader ==
    /\ pc = "loop" /\ HasLine /\ i = 0
    /\ headers' = reSplit(replaceNL(line))
    /\ stdout' = Append(stdout, headers')
    /\ inFile' = [inFile EXCEPT !.pos = @ + 1]
    /\ i' = i + 1
    /\ UNCHANGED <<fileLines, outFile, x, pc, flatVars>>

ProcessRow ==
    /\ pc = "loop" /\ HasLine /\ i # 0
    /\ LET r == buildRecord(x, headers, reSplit(line))
       IN  /\ ~r.raised
           /\ x' = r.x
           /\ stdout' = IF i = 1 THEN Append(stdout, r.x) ELSE stdout
           /\ outFile' = [outFile EXCEPT !.written = @ \o rowWrites(i, r.x)]
    /\ inFile' = [inFile EXCEPT !.pos = @ + 1]
    /\ i' = i + 1
    /\ UNCHANGED <<fileLines, headers, pc, flatVars>>

RowRaises ==
    /\ pc = "loop" /\ HasLine /\ i # 0
    /\ LET r == buildRecord(x, headers, reSplit(line))
       IN  /\ r.raised
           /\ x' = r.x
    /\ inFile' = [inFile EXCEPT !.pos = @ + 1]
    /\ pc' = "raised"
    /\ UNCHANGED <<fileLines, outFile, i, headers, stdout, flatVars>>

EndLoop ==
    /\ pc = "loop" /\ ~HasLine
    /\ outFile' = [outFile EXCEPT !.written = @ \o closeWrites]
    /\ pc' = "written"
    /\ UNCHANGED <<fileLines, inFile, x, i, headers, stdout, flatVars>>

\* a and b: b when a is true, else a. An open file object is true.
pyAnd(a, b) == IF a.truthy THEN b ELSE a

\* The object the with statement manages: `inFile and outFile`.
withTarget ==
    pyAnd([name |-> "inFile", truthy |-> TRUE], [name |-> "outFile", truthy |-> TRUE]).name

LeaveWith ==
    /\ pc \in {"written", "raised"}
    /\ outFile' = [outFile EXCEPT !.closed = (withTarget = "outFile") \/ @]
    /\ inFile' = [inFile EXCEPT !.closed = (withTarget = "inFile") \/ @]
    /\ pc' = IF pc = "written" THEN "left" ELSE "aborted"
    /\ UNCHANGED <<fileLines, x, i, headers, stdout, flatVars>>

\* The interpreter exits (after the last statement, or with the traceback
\* of the unhandled IndexError) and the remaining handles go with it.
Exit ==
    /\ pc \in {"left", "aborted"}
    /\ inFile' = [inFile EXCEPT !.closed = TRUE]
    /\ outFile' = [outFile EXCEPT !.closed = TRUE]
    /\ pc' = IF pc = "left" THEN "exit" ELSE "exitError"
    /\ UNCHANGED <<fileLines, x, i, headers, stdout, flatVars>>

Next ==
    \/ ReadHeader
    \/ ProcessRow
    \/ RowRaises
    \/ EndLoop
    \/ LeaveWith
    \/ Exit

Spec == Init /\ [][Next]_vars

\* ------------------------------------------------------ flat-record mode
\* The second script, as section 4.1 describes it: every row becomes a dict
\* of _id and all the headers, collected into the list players.
IdKey == <<"_", "i", "d">>
PlayersKey == <<"p", "l", "a", "y", "e", "r", "s">>

\* The n-th identifier generated in a run; no two are equal.
freshId(n) == <<"u">> \o [k \in 1..n |-> "x"]

\* For every header index j: record[headers[j]] = values[j] without the
\* newline; raised when values[j] is out of range.
RECURSIVE flatFill(_, _, _, _)
flatFill(rec, hdrs, values, j) ==
    IF ~(j < Len(hdrs)) THEN [rec |-> rec, raised |-> FALSE]
    ELSE IF ~(j < Len(values)) THEN [rec |-> rec, raised |-> TRUE]
    ELSE flatFill(DictSet(rec, At(hdrs, j), Str(replaceNL(At(values, j)))),
                  hdrs, values, j + 1)

\* flatRecord with one identifier for the whole run.
flatRecordOneId(n, hdrs, values) ==
    flatFill(<< <<IdKey, Str(freshId(0))>> >>, hdrs, values, 0)

\* The record of one row: _id first, then the headers.
flatRecord(n, hdrs, values) ==
    flatFill(<< <<IdKey, Str(freshId(n))>> >>, hdrs, values, 0)

\* The text appended after the JSON object: ,\n"curr_index" : 0
currIndexTail ==
    <<",", NL, QUOTE, "c", "u", "r", "r", "_", "i", "n", "d", "e", "x", QUOTE,
      " ", ":", " ", "0">>

FlatReadHeader ==
    /\ pc = "loop" /\ HasLine /\ inFile.pos = 0
    /\ headers' = reSplit(replaceNL(line))
    /\ inFile' = [inFile EXCEPT !.pos = @ + 1]
    /\ UNCHANGED <<fileLines, outFile, x, i, stdout, pc, flatVars>>

FlatProcessRow ==
    /\ pc = "loop" /\ HasLine /\ inFile.pos # 0
    /\ LET r == flatRecord(idCount, headers, reSplit(line))
       IN  /\ ~r.raised
           /\ players' = Append(players, Obj(r.rec))
    /\ idCount' = idCount + 1
    /\ inFile' = [inFile EXCEPT !.pos = @ + 1]
    /\ UNCHANGED <<fileLines, outFile, x, i, headers, stdout, pc>>

FlatRowRaises ==
    /\ pc = "loop" /\ HasLine /\ inFile.pos # 0
    /\ flatRecord(idCount, headers, reSplit(line)).raised
    /\ idCount' = idCount + 1
    /\ inFile' = [inFile EXCEPT !.pos = @ + 1]
    /\ pc' = "raised"
    /\ UNCHANGED <<fileLines, outFile, x, i, headers, stdout, players>>

FlatWrite ==
    /\ pc = "loop" /\ ~HasLine
    /\ outFile' = [outFile EXCEPT !.written =
                      @ \o << dumps(<< <<PlayersKey, Lst(players)>> >>), currIndexTail >>]
    /\ pc' = "written"
    /\ UNCHANGED <<fileLines, inFile, x, i, headers, stdout, flatVars>>

FlatExit ==
    /\ pc \in {"written", "raised"}
    /\ inFile' = [inFile EXCEPT !.closed = TRUE]
    /\ outFile' = [outFile EXCEPT !.closed = TRUE]
    /\ pc' = IF pc = "written" THEN "exit" ELSE "exitError"
    /\ UNCHANGED <<fileLines, x, i, headers, stdout, flatVars>>

NextFlat ==
    \/ FlatReadHeader
    \/ FlatProcessRow
    \/ FlatRowRaises
    \/ FlatWrite
    \/ FlatExit

SpecFlat == Init /\ [][NextFlat]_vars
\* ------------------------------------------------- reading the output back
\* A JSON reader for the text dumps writes (objects of strings and objects),
\* total on every text: it stops at the end of the text.
Ch(t, p) == IF p <= Len(t) THEN t[p] ELSE "EOF"

RECURSIVE skipWs(_, _)
skipWs(t, p) == IF Ch(t, p) \in {" ", NL} THEN skipWs(t, p + 1) ELSE p

Unesc(c) ==
    CASE c = "n" -> NL
      [] c = "t" -> TAB
      [] OTHER -> c

\* p is behind the opening quote.
RECURSIVE parseStr(_, _, _)
parseStr(t, p, acc) ==
    IF Ch(t, p) = "EOF" THEN [v |-> acc, p |-> p]
    ELSE IF Ch(t, p) = QUOTE THEN [v |-> acc, p |-> p + 1]
    ELSE IF Ch(t, p) = BSLASH /\ Ch(t, p + 1) # "EOF"
         THEN parseStr(t, p + 2, Append(acc, Unesc(Ch(t, p + 1))))
    ELSE parseStr(t, p + 1, Append(acc, Ch(t, p)))

RECURSIVE parseVal(_, _)
RECURSIVE parseMembers(_, _, _)
parseMembers(t, p, acc) ==
    IF Ch(t, p) # QUOTE THEN [v |-> Obj(acc), p |-> p + 1]
    ELSE LET key == parseStr(t, p + 1, <<>>)
             colon == skipWs(t, key.p)
             val == parseVal(t, skipWs(t, colon + 1))
             sep == skipWs(t, val.p)
             acc2 == DictSet(acc, key.v, val.v)
         IN  IF Ch(t, sep) = "," THEN parseMembers(t, skipWs(t, sep + 1), acc2)
             ELSE [v |-> Obj(acc2), p |-> sep + 1]

parseVal(t, p) ==
    IF Ch(t, p) = QUOTE
    THEN LET r == parseStr(t, p + 1, <<>>) IN [v |-> Str(r.v), p |-> r.p]
    ELSE parseMembers(t, skipWs(t, p + 1), <<>>)

\* json.loads(t), the dict.
loads(t) == parseVal(t, skipWs(t, 1)).v.v

\* t is the JSON text of a dict, exactly as json.dumps(.., indent=4) writes it.
IsDumpOf(t, d) == t # <<>> /\ t[1] = "{" /\ dumps(d) = t
IsRecordText(t) == IsDumpOf(t, loads(t))

\* --------------------------------------------------- the input, as given
\* s without the newline that ends a line.
NoNL(s) == IF s # <<>> /\ s[Len(s)] = NL THEN SubSeq(s, 1, Len(s) - 1) ELSE s

\* The number of lines after the header line.
DataRows == IF Len(fileLines) = 0 THEN 0 ELSE Len(fileLines) - 1
\* The tab-separated fields of data row r (r = 1 is the line after the header).
RowCols(r) == reSplit(fileLines[r + 1])
\* The names of the header line.
HeaderNames == reSplit(NoNL(fileLines[1]))
HeaderCount == IF Len(fileLines) = 0 THEN 0 ELSE Len(HeaderNames)
\* The rows that have fewer fields than the header.
ShortRows == {r \in 1..DataRows : Len(RowCols(r)) < HeaderCount}

\* ------------------------------------------------------ the output so far
written == outFile.written
\* The record texts among the write() arguments, in the order written.
RecordTexts == SelectSeq(written, LAMBDA c : c # <<>> /\ c[1] = "{")
Raised == pc \in {"raised", "aborted", "exitError"}
Completed == pc \in {"written", "left", "exit"}
\* The name and the country read back from a record text.
StrAt(d, key) ==
    IF DictHas(d, key) /\ DictGet(d, key).t = "str" THEN DictGet(d, key) ELSE Obj(<<>>)
ObjAt(d, key) ==
    IF DictHas(d, key) /\ DictGet(d, key).t = "obj" THEN DictGet(d, key).v ELSE <<>>
DataOf(t) == ObjAt(loads(t), DataKey)

\* The text t is a well-formed record whose name and country are the first
\* two fields of data row r.
IsRecordOfRow(t, r) ==
    LET d == loads(t)
        cols == RowCols(r)
    IN  /\ IsDumpOf(t, d)
        /\ DictKeys(d) = {NameKey, CountryKey, DataKey}
        /\ Len(cols) >= 2
        /\ StrAt(d, NameKey) = Str(cols[1])
        /\ StrAt(d, CountryKey) = Str(cols[2])

OneRecordPerRow ==
    LET texts == RecordTexts
    IN  /\ Len(texts) = DataRows
        /\ \A r \in 1..DataRows : IsRecordOfRow(texts[r], r)

\* ------------------------------------------------------------------- C1
\* C1 as stated: if every data row has at least as many tab-separated
\* fields as the header (headers with fewer than 2 fields included), the
\* pass never fails, and once it has completed the output holds exactly one
\* record per data row, in input order.
C1_AsStated ==
    (ShortRows = {}) =>
        /\ ~Raised
        /\ Completed => OneRecordPerRow

\* Every data row has at least 2 fields and at least as many as the header.
RowsWideEnough ==
    \A r \in 1..DataRows :
        Len(RowCols(r)) >= 2 /\ Len(RowCols(r)) >= HeaderCount

\* C1, amended: if every data row has at least as many tab-separated fields
\* as the header and at least 2 fields, the pass never fails, and once it
\* has completed the output holds exactly one record per data row, in input
\* order.
C1_OneRecordPerRow ==
    RowsWideEnough =>
        /\ ~Raised
        /\ Completed => OneRecordPerRow

\* A completed pass over two different wide-enough data rows under a header
\* with data columns.
C1_Witness ==
    /\ Completed /\ RowsWideEnough /\ DataRows >= 2
    /\ HeaderCount >= 3
    /\ RowCols(1) # RowCols(2)

\* ------------------------------------------------------------------- C3
\* C3: in a completed run with at least one data row the write() calls are
\* "[" once and first, then per data row in order its JSON text, "," and a
\* newline (after the last record too), then "]" once and last; "[" is
\* written on no row but the first.
C3_WriteOrder ==
    (Completed /\ DataRows >= 1) =>
        /\ Len(written) = 3 * DataRows + 2
        /\ written[1] = <<"[">>
        /\ written[Len(written)] = <<"]">>
        /\ \A k \in 2..(Len(written) - 1) : written[k] \notin {<<"[">>, <<"]">>}
        /\ \A r \in 1..DataRows :
              /\ IsRecordOfRow(written[3 * r - 1], r)
              /\ written[3 * r] = <<",">>
              /\ written[3 * r + 1] = <<NL>>

C3_Witness == Completed /\ DataRows >= 2 /\ Len(written) = 3 * DataRows + 2

\* ------------------------------------------------------------------- C4
\* C4: with zero data rows (a header line alone, or no line at all) the run
\* never fails, nothing but "]" is ever written, and the whole output of the
\* completed run is the single character "]".
C4_EmptyInput ==
    (DataRows = 0) =>
        /\ ~Raised
        /\ written \in {<<>>, << <<"]">> >>}
        /\ Completed => Concat(written) = <<"]">>

C4_Witness == DataRows = 0 /\ Len(fileLines) = 1 /\ pc = "exit" /\ Concat(written) = <<"]">>

\* ------------------------------------------------------------------- C5
FirstShortRow == CHOOSE r \in ShortRows : \A q \in ShortRows : r <= q

\* C5: if some data row has fewer fields than the header, the first such row
\* raises and ends the pass: no later line is read, nothing is written for it
\* or after it, "]" is never written, and the output is what the rows before
\* it wrote ("[" and, per row, its record, "," and a newline).
C5_ShortRowAborts ==
    (ShortRows # {}) =>
        LET r == FirstShortRow
            before == IF r = 1 THEN 0 ELSE 3 * (r - 1) + 1
        IN  /\ ~Completed
            /\ inFile.pos <= r + 1
            /\ (inFile.pos = r + 1) <=> Raised
            /\ Len(written) <= before
            /\ Raised => Len(written) = before
            /\ \A k \in 1..Len(written) : written[k] # <<"]">>
            /\ \A k \in 1..Len(RecordTexts) : IsRecordOfRow(RecordTexts[k], k)
            /\ before > 0 /\ Len(written) > 0 => written[1] = <<"[">>

\* The second data row is the short one, and the run has ended on it with
\* the first row's record in the output.
C5_Witness ==
    /\ ShortRows # {} /\ FirstShortRow = 2
    /\ pc = "exitError" /\ Len(RecordTexts) = 1 /\ Len(RowCols(2)) >= 2
\* ------------------------------------------------------------------- C2
Range(s) == {s[k] : k \in 1..Len(s)}
\* The names of the header's data columns, headers[2:].
DataNamesOfHeader == {HeaderNames[j] : j \in 3..HeaderCount}
\* No later header column carries the name of column j (1-based).
LastOfItsName(j) == \A m \in (j + 1)..HeaderCount : HeaderNames[m] # HeaderNames[j]
\* x is the record of the data row read last, and its text was written last.
RecordInHand ==
    /\ ~Raised /\ i >= 2
    /\ RecordTexts # <<>> /\ RecordTexts[Len(RecordTexts)] = dumps(x)

\* C2 as stated: the data mapping of every written record has exactly
\* header_count - 2 entries, its key set is headers[2:], and each key
\* headers[j] maps to the row's j-th column without the newline, under any
\* header (repeated names and headers of fewer than 2 fields included).
C2_AsStated ==
    (~Raised /\ i >= 2) =>
        LET data == ObjAt(x, DataKey)
            cols == RowCols(i - 1)
        IN  /\ Len(data) = HeaderCount - 2
            /\ DictKeys(data) = DataNamesOfHeader
            /\ \A j \in 3..HeaderCount :
                  DictGet(data, HeaderNames[j]) = Str(NoNL(cols[j]))

\* C2, amended: the data mapping of every written record has one entry per
\* distinct name in headers[2:] (header_count - 2 entries when the header has
\* at least 2 fields and those names are pairwise distinct, none when the
\* header has fewer than 2 fields), its key set is the set of names in
\* headers[2:], and each key maps to the row's column, without the newline,
\* at the last index j >= 2 whose header is that key.
C2_DataMapping ==
    (~Raised /\ i >= 2) =>
        LET data == ObjAt(x, DataKey)
            cols == RowCols(i - 1)
        IN  /\ RecordInHand
            /\ DictHas(x, DataKey) /\ DictGet(x, DataKey).t = "obj"
            /\ Len(data) = Cardinality(DataNamesOfHeader)
            /\ DictKeys(data) = DataNamesOfHeader
            /\ (HeaderCount >= 2 /\ \A j \in 3..HeaderCount : LastOfItsName(j))
                  => Len(data) = HeaderCount - 2
            /\ HeaderCount < 2 => data = <<>>
            /\ \A j \in 3..HeaderCount :
                  LastOfItsName(j) =>
                      DictGet(data, HeaderNames[j]) = Str(NoNL(cols[j]))

\* A record under a header that repeats a data name, from a row whose two
\* columns under that name differ.
C2_Witness ==
    /\ RecordInHand /\ HeaderCount = 4
    /\ HeaderNames[3] = HeaderNames[4]
    /\ NoNL(RowCols(i - 1)[3]) # NoNL(RowCols(i - 1)[4])

\* ------------------------------------------------------------------- C6
\* C6 as stated: for every written record and every column j with
\* 2 <= j < header_count, data[headers[j]] read back from the record's text
\* is the row's j-th column, unchanged but for the line's trailing newline.
C6_AsStated ==
    \A r \in 1..Len(RecordTexts) :
        \A j \in 3..HeaderCount :
            /\ DictHas(DataOf(RecordTexts[r]), HeaderNames[j])
            /\ DictGet(DataOf(RecordTexts[r]), HeaderNames[j]) = Str(NoNL(RowCols(r)[j]))

\* C6, amended: for every written record and every column j with
\* 2 <= j < header_count whose header name is not repeated at a later column,
\* data[headers[j]] read back from the record's text is the row's j-th
\* column, unchanged but for the line's trailing newline.
C6_RoundTrip ==
    LET texts == RecordTexts
        names == HeaderNames
    IN  \A r \in 1..Len(texts) :
            LET d == loads(texts[r])
                data == ObjAt(d, DataKey)
                cols == RowCols(r)
            IN  /\ IsDumpOf(texts[r], d)
                /\ \A j \in 3..Len(names) :
                      LastOfItsName(j) =>
                          /\ DictHas(data, names[j])
                          /\ DictGet(data, names[j]) = Str(NoNL(cols[j]))

\* A record read back whose data holds a value with a quote and a backslash,
\* and one taken from the column that ends the line.
C6_Witness ==
    \E r \in 1..Len(RecordTexts) :
        /\ HeaderCount >= 3
        /\ Len(RowCols(r)) = HeaderCount
        /\ NL \in Range(RowCols(r)[HeaderCount])
        /\ \E j \in 3..HeaderCount :
              /\ LastOfItsName(j)
              /\ {QUOTE, BSLASH} \subseteq Range(RowCols(r)[j])
              /\ DictGet(DataOf(RecordTexts[r]), HeaderNames[j]) = Str(NoNL(RowCols(r)[j]))

\* ------------------------------------------------------------------- C9
\* The line ln starts with name, a tab and country, and country ends where
\* the line or the field ends.
FirstTwoFields(name, country, ln) ==
    LET pre == name \o <<TAB>> \o country
    IN  /\ TAB \notin Range(name) /\ TAB \notin Range(country)
        /\ Len(ln) >= Len(pre) /\ SubSeq(ln, 1, Len(pre)) = pre
        /\ Len(ln) = Len(pre) \/ ln[Len(pre) + 1] = TAB

\* C9: the name of every written record is its row's first tab-split field
\* and the country the second, as split: with 3 fields or more neither holds
\* a newline; with exactly 2 fields (the header then has at most 2) country
\* keeps the newline that ends the line.
C9_NameCountry ==
    LET texts == RecordTexts
    IN  \A r \in 1..Len(texts) :
            LET ln == fileLines[r + 1]
                cols == RowCols(r)
                d == loads(texts[r])
                name == StrAt(d, NameKey)
                country == StrAt(d, CountryKey)
            IN  /\ name.t = "str" /\ country.t = "str"
                /\ FirstTwoFields(name.v, country.v, ln)
                /\ name = Str(cols[1]) /\ country = Str(cols[2])
                /\ NL \notin Range(name.v)
                /\ Len(cols) >= 3 => NL \notin Range(country.v)
                /\ Len(cols) = 2 =>
                      /\ HeaderCount <= 2
                      /\ ln = name.v \o <<TAB>> \o country.v
                      /\ NoNL(ln) # ln => country.v = NoNL(country.v) \o <<NL>>

\* A record of a two-field row whose country ends with the line's newline.
C9_Witness ==
    \E r \in 1..Len(RecordTexts) :
        LET country == StrAt(loads(RecordTexts[r]), CountryKey)
        IN  /\ Len(RowCols(r)) = 2
            /\ country.t = "str"
            /\ Len(country.v) >= 2 /\ country.v[Len(country.v)] = NL

\* ------------------------------------------------------------------ C10
\* C10: at every write the reused dict x holds exactly the keys name,
\* country and data, and is the record a fresh dict would give from the
\* header and the row alone: name and country are the row's, and every data
\* item is a header name with a column of this row.
C10_NoCarryOver ==
    (~Raised /\ i >= 2) =>
        LET cols == RowCols(i - 1)
            data == ObjAt(x, DataKey)
        IN  /\ RecordInHand
            /\ Len(x) = 3
            /\ <<x[1][1], x[2][1], x[3][1]>> = <<NameKey, CountryKey, DataKey>>
            /\ x[1][2] = Str(cols[1]) /\ x[2][2] = Str(cols[2])
            /\ x[3][2].t = "obj"
            /\ \A k \in 1..Len(data) :
                  \E j \in 3..HeaderCount :
                      /\ j <= Len(cols)
                      /\ data[k] = <<HeaderNames[j], Str(NoNL(cols[j]))>>
            /\ x = buildRecord(<<>>, HeaderNames, cols).x

\* The second record of a run, from a row that differs from the first in
\* name, country and a data column.
C10_Witness ==
    /\ RecordInHand /\ i = 3 /\ HeaderCount >= 3
    /\ RowCols(1)[1] # RowCols(2)[1]
    /\ RowCols(1)[2] # RowCols(2)[2]
    /\ NoNL(RowCols(1)[3]) # NoNL(RowCols(2)[3])

\* ------------------------------------------------------------------- C7
\* C7 as stated: both handles are open during the whole pass, "]" included,
\* and both are closed once the with block is left, on completion and on an
\* aborting failure alike.
C7_AsStated ==
    /\ pc \in {"loop", "written", "raised"} => ~inFile.closed /\ ~outFile.closed
    /\ pc \in {"left", "aborted"} => inFile.closed /\ outFile.closed
\* ------------------------------------------------------------------- C8
FlatCompleted == pc \in {"written", "exit"}
IdOf(player) == DictGet(player.v, IdKey)

PlainHeader ==
    /\ IdKey \notin Range(HeaderNames)
    /\ Cardinality(Range(HeaderNames)) = Len(HeaderNames)

====
